---- MODULE Spec2Model ----
(***************************************************************************)
(* Model of the image-set validation and PDF page-layout engine:           *)
(*   ImageDataList::new      (src/src/domain/image_data_list.rs)           *)
(*   PdfFile::create_file    (src/src/domain/pdf_file/create_pdf.rs)       *)
(*                                                                         *)
(* One behaviour is one conversion: a list of raw blobs and a name are     *)
(* validated by ImageDataList::new and, when that succeeds, assembled into *)
(* a document by PdfFile::create_file.  Both functions are modelled loop   *)
(* iteration by loop iteration, so that "which blob was decoded before     *)
(* the call returned" is visible in the state.                             *)
(*                                                                         *)
(* f64 values are modelled as exact rationals <<n, d>> in lowest terms.    *)
(* For u32 pixel sizes the quotients compared by the layout step differ    *)
(* by far more than one ulp whenever they differ at all, so the exact      *)
(* comparison and the f64 comparison agree.                                *)
(***************************************************************************)
EXTENDS Integers, Sequences, FiniteSets, TLC

VARIABLES
    data,        \* the Vec<Vec<u8>> handed to ImageDataList::new
    data_name,   \* the name handed to ImageDataList::new
    pc,          \* position of the conversion
    i,           \* loop index of ImageDataList::new
    max_width,   \* running maximum of ImageDataList::new
    max_height,  \* running maximum of ImageDataList::new
    decoded,     \* indices on which get_dimensions has been called, in call order
    vres,        \* Result<ImageDataList, ImageValidationError> of ImageDataList::new
    idx,         \* loop index of PdfFile::create_file
    doc,         \* elements pushed to the genpdf Document, in push order
    title,       \* title set on the genpdf Document
    pres,        \* Result<PdfFile, PdfValidationError> of PdfFile::create_file
    args_input_dir,        \* args.input_dir of workflow::run, and what is found there
    listing,               \* the entries of the input directory, in read_dir order
    rpc,                   \* position of workflow::run: "run", "loop", then "done"
                           \* (returned from step 5) or "aborted" (returned by a ?)
    input_dir,             \* run's input_dir: the result of DirectoryPath::new
    consumed,              \* how many entries the loop of run has consumed
    processed_item_count,  \* run's counter
    outcomes,              \* per consumed entry: what was done with it
    files,                 \* the files in the output directory
    run_result,            \* Result<(), AppError> of workflow::run
    probe,                 \* a path handed to one of the path constructors
    probed,                \* which constructor was called on it, and its result
    procs                  \* two conversions under way at once, each with its own locals

convvars == <<data, data_name, pc, i, max_width, max_height, decoded, vres,
              idx, doc, title, pres>>

runvars == <<args_input_dir, listing, rpc, input_dir, consumed, processed_item_count,
             outcomes, files, run_result>>

pathvars == <<probe, probed>>

pairvars == <<procs>>

vars == <<convvars, runvars, pathvars, pairvars>>

(***************************************************************************)
(* Bounds of the model.                                                    *)
(***************************************************************************)
MaxLen == 3

\* pixel sizes of the modelled images: tiny, around the 1:1 fit of the usable
\* area at 300 DPI (190 mm = 2244.09 px, 277 mm = 3271.65 px), and beyond it
PixelSizes == {50, 100, 300, 1870, 2494, 4000}

Names == {"album", "scan"}

(***************************************************************************)
(* Blobs.  A blob is opaque bytes to the program; what the image crate and *)
(* genpdf make of it is fixed by its kind:                                 *)
(*   img   a complete image without alpha channel                          *)
(*   alpha a complete image with an alpha channel (genpdf refuses it)      *)
(*   hdr   an image file with a valid header and a corrupt body            *)
(*   junk  bytes in no supported raster format                             *)
(***************************************************************************)
Blob(k, w, h) == [kind |-> k, w |-> w, h |-> h]

JunkBlob == Blob("junk", 0, 0)

ImageBlobs == {Blob("img", w, h) : w \in PixelSizes, h \in PixelSizes}

\* the blobs that lists of more than one element are built from
ListBlobs == {Blob("img", 100, 50), Blob("img", 50, 300), Blob("img", 1870, 2494),
              Blob("alpha", 300, 300), Blob("hdr", 100, 100), JunkBlob}

Blobs == ImageBlobs \cup ListBlobs

BoundedSeq(S, n) == UNION {[1..k -> S] : k \in 0..n}

Inputs == BoundedSeq(ListBlobs, MaxLen) \cup {<<b>> : b \in Blobs}

(***************************************************************************)
(* Exact rationals standing for f64.                                       *)
(***************************************************************************)
RECURSIVE GCD(_, _)
GCD(a, b) == IF b = 0 THEN a ELSE GCD(b, a % b)

Rat(n, d) == LET g == GCD(n, d) IN <<n \div g, d \div g>>

RatInt(n) == <<n, 1>>

RatMul(x, y) == Rat(x[1] * y[1], x[2] * y[2])

RatDiv(x, y) == Rat(x[1] * y[2], x[2] * y[1])

RatSub(x, y) == Rat(x[1] * y[2] - y[1] * x[2], x[2] * y[2])

\* x < y, cross-multiplied after cancelling what the two sides share
RatLess(x, y) ==
    LET gn == GCD(x[1], y[1])
        gd == GCD(x[2], y[2])
    IN  (x[1] \div gn) * (y[2] \div gd) < (y[1] \div gn) * (x[2] \div gd)

\* f64::min on non-NaN values
RatMin(x, y) == IF RatLess(y, x) THEN y ELSE x

One == RatInt(1)

(***************************************************************************)
(* The external decoders, by blob kind.                                    *)
(***************************************************************************)
Ok2(w, h) == [ok |-> TRUE, w |-> w, h |-> h]

Err2 == [ok |-> FALSE, w |-> 0, h |-> 0]

\* ImageReader::new(..).with_guessed_format()?.into_dimensions(): reads the header
get_dimensions(bytes) ==
    IF bytes.kind \in {"img", "alpha", "hdr"} THEN Ok2(bytes.w, bytes.h) ELSE Err2

\* image::load_from_memory: decodes the whole pixel buffer
load_from_memory(bytes) ==
    IF bytes.kind \in {"img", "alpha"} THEN Ok2(bytes.w, bytes.h) ELSE Err2

\* elements::Image::from_dynamic_image: refuses images with an alpha channel
from_dynamic_image(bytes) == bytes.kind # "alpha"

(***************************************************************************)
(* ImageDataList::new, piece by piece.                                     *)
(***************************************************************************)
NoResult == [kind |-> "none"]

EmptyData == [kind |-> "EmptyData"]

\* variant: the index is reported 1-based, as the messages of create_file do
NotAnImage_OneBased(index) == [kind |-> "NotAnImage", index |-> index + 1]

NotAnImage(index) == [kind |-> "NotAnImage", index |-> index]

\* variant: the emptiness guard is missing
IsEmptyData_Never(d) == FALSE

\* the data.is_empty() guard
IsEmptyData(d) == Len(d) = 0

\* variant: the last value wins instead of the largest
UpdateMax_Last(cur, v) == v

\* if w > max_width { max_width = w; }
UpdateMax(cur, v) == IF v > cur THEN v ELSE cur

\* variant: a blob that does not decode is skipped and the loop goes on
LoopBody_SkipBad(st, bytes) ==
    LET dim == get_dimensions(bytes)
    IN  IF dim.ok
        THEN [st EXCEPT !.max_width = UpdateMax(@, dim.w),
                        !.max_height = UpdateMax(@, dim.h),
                        !.i = @ + 1]
        ELSE [st EXCEPT !.i = @ + 1]

\* one iteration of `for (i, bytes) in data.iter().enumerate()`;
\* st is the loop's state: i, the two maxima, and where and with what it returns
LoopBody(st, bytes) ==
    LET dim == get_dimensions(bytes)
    IN  IF dim.ok
        THEN [st EXCEPT !.max_width = UpdateMax(@, dim.w),
                        !.max_height = UpdateMax(@, dim.h),
                        !.i = @ + 1]
        ELSE [st EXCEPT !.vres = NotAnImage(st.i), !.pc = "rejected"]

\* variant: the name is not stored
OkList_Unnamed(d, name, mh, mw) ==
    [kind |-> "Ok", images |-> d, data_name |-> "untitled",
     max_height |-> mh, max_width |-> mw]

\* variant: the images are stored in reverse order
OkList_Reversed(d, name, mh, mw) ==
    [kind |-> "Ok", images |-> [k \in 1..Len(d) |-> d[Len(d) + 1 - k]],
     data_name |-> name, max_height |-> mh, max_width |-> mw]

\* Ok(Self { images: data, data_name, max_height, max_width })
OkList(d, name, mh, mw) ==
    [kind |-> "Ok", images |-> d, data_name |-> name,
     max_height |-> mh, max_width |-> mw]

len(list) == Len(list.images)

is_empty(list) == Len(list.images) = 0

images(list) == list.images

(***************************************************************************)
(* The layout step of PdfFile::create_file.                                *)
(***************************************************************************)
page_w_mm == 210

page_h_mm == 297

margin_mm == 10

dpi == 300

\* variant: the page height is taken for the width
usable_w_FromHeight == RatSub(RatInt(page_h_mm), RatMul(RatInt(2), RatInt(margin_mm)))

usable_w == RatSub(RatInt(page_w_mm), RatMul(RatInt(2), RatInt(margin_mm)))

usable_h == RatSub(RatInt(page_h_mm), RatMul(RatInt(2), RatInt(margin_mm)))

\* (px as f64) / dpi * 25.4
px_to_mm(px, d) == RatMul(RatDiv(RatInt(px), RatInt(d)), Rat(254, 10))

\* variant: the height of the usable area is forgotten
s0_WidthOnly(w_mm, h_mm) == RatDiv(usable_w, w_mm)

\* (usable_w / w_mm).min(usable_h / h_mm)
s0(w_mm, h_mm) == RatMin(RatDiv(usable_w, w_mm), RatDiv(usable_h, h_mm))

\* (usable_w / h_mm).min(usable_h / w_mm)
s90(w_mm, h_mm) == RatMin(RatDiv(usable_w, h_mm), RatDiv(usable_h, w_mm))

\* variant: ties go to the rotated orientation (>= for >)
Select_TieRotates(u, r) ==
    IF ~RatLess(r, u)
    THEN [scale |-> RatMin(r, One), rotate_deg |-> "Some(90)"]
    ELSE [scale |-> RatMin(u, One), rotate_deg |-> "None"]

\* variant: the selected scale is used as it is, without .min(1.0)
Select_NoCap(u, r) ==
    IF RatLess(u, r)
    THEN [scale |-> r, rotate_deg |-> "Some(90)"]
    ELSE [scale |-> u, rotate_deg |-> "None"]

\* variant: the two scales are capped at 1.0 before they are compared
Select_CapFirst(u, r) ==
    IF RatLess(RatMin(u, One), RatMin(r, One))
    THEN [scale |-> RatMin(r, One), rotate_deg |-> "Some(90)"]
    ELSE [scale |-> RatMin(u, One), rotate_deg |-> "None"]

\* variant: the comparison is the wrong way round (s0 > s90 rotates)
Select_Reversed(u, r) ==
    IF RatLess(r, u)
    THEN [scale |-> RatMin(r, One), rotate_deg |-> "Some(90)"]
    ELSE [scale |-> RatMin(u, One), rotate_deg |-> "None"]

\* if s90 > s0 { (s90.min(1.0), Some(90.0)) } else { (s0.min(1.0), None) }
Select(u, r) ==
    IF RatLess(u, r)
    THEN [scale |-> RatMin(r, One), rotate_deg |-> "Some(90)"]
    ELSE [scale |-> RatMin(u, One), rotate_deg |-> "None"]

\* variant: width and height are taken the wrong way round
Layout_Swapped(w_px, h_px) ==
    LET w_mm == px_to_mm(h_px, dpi)
        h_mm == px_to_mm(w_px, dpi)
    IN  Select(s0(w_mm, h_mm), s90(w_mm, h_mm))

\* (scale, rotate_deg) for an image of w_px x h_px pixels
Layout(w_px, h_px) ==
    LET w_mm == px_to_mm(w_px, dpi)
        h_mm == px_to_mm(h_px, dpi)
    IN  Select(s0(w_mm, h_mm), s90(w_mm, h_mm))

(***************************************************************************)
(* The document elements and results of PdfFile::create_file.              *)
(***************************************************************************)
\* img after set_dpi, set_scale, set_clockwise_rotation and set_alignment
ImageElement(bytes, lay) ==
    [type |-> "Image", image |-> bytes, dpi |-> dpi, scale |-> lay.scale,
     rotate_deg |-> lay.rotate_deg, alignment |-> "Center"]

PageBreak ==
    [type |-> "PageBreak", image |-> JunkBlob, dpi |-> 0, scale |-> One,
     rotate_deg |-> "None", alignment |-> "None"]

\* variant: rendering and image failures are separate variants of the enum
PdfCreationError_ByStep(step, no) ==
    [kind |-> IF step = "render" THEN "RenderFailed" ELSE "ImageToElementConversionFailed",
     step |-> step, no |-> no]

\* PdfValidationError::PdfCreationError(message): the step that failed and, for
\* a failing image, the 1-based number the message names (0: none)
PdfCreationError(step, no) == [kind |-> "PdfCreationError", step |-> step, no |-> no]

\* variant: a page break follows every image, the last one too
Pushed_AlwaysBreak(list, at, lay) ==
    <<ImageElement(images(list)[at + 1], lay), PageBreak>>

\* the elements one loop iteration pushes for images()[idx]
Pushed(list, at, lay) ==
    <<ImageElement(images(list)[at + 1], lay)>>
        \o (IF at + 1 < Len(images(list)) THEN <<PageBreak>> ELSE <<>>)

\* variant: an image that cannot be loaded or converted is left out
CreateBody_SkipBad(st, list) ==
    LET bytes == images(list)[st.idx + 1]
        dynimg == load_from_memory(bytes)
    IN  IF ~dynimg.ok \/ ~from_dynamic_image(bytes)
        THEN [st EXCEPT !.idx = @ + 1]
        ELSE [st EXCEPT !.doc = @ \o Pushed(list, st.idx, Layout(dynimg.w, dynimg.h)),
                        !.idx = @ + 1]

\* one iteration of `for (idx, bytes) in image_data_list.images().iter().enumerate()`;
\* st is the loop's state: idx, doc, and where and with what the call returns
CreateBody(st, list) ==
    LET bytes == images(list)[st.idx + 1]
        dynimg == load_from_memory(bytes)
    IN  IF ~dynimg.ok
        THEN [st EXCEPT !.pres = PdfCreationError("load", st.idx + 1),
                        !.pc = "create_failed"]
        ELSE IF ~from_dynamic_image(bytes)
        THEN [st EXCEPT !.pres = PdfCreationError("convert", st.idx + 1),
                        !.pc = "create_failed"]
        ELSE [st EXCEPT !.doc = @ \o Pushed(list, st.idx, Layout(dynimg.w, dynimg.h)),
                        !.idx = @ + 1]

\* Ok(Self { file_name, image_data_list, font, pdf_data })
OkPdf(list, t, d) ==
    [kind |-> "Ok", file_name |-> list.data_name, image_data_list |-> list,
     pdf_data |-> [title |-> t, elements |-> d]]

(***************************************************************************)
(* The state machine.                                                      *)
(***************************************************************************)
\* no path constructor is being tried on its own
PathIdle ==
    /\ probe = [name |-> <<>>, meta |-> "notfound"]
    /\ probed = [call |-> "none", result |-> [kind |-> "none"]]

\* no pair of conversions is under way
PairIdle == procs = <<>>

\* no run of the workflow is under way
RunIdle ==
    /\ args_input_dir = [name |-> <<>>, meta |-> "notfound", open_ok |-> FALSE]
    /\ listing = <<>>
    /\ rpc = "idle"
    /\ input_dir = NoResult
    /\ consumed = 0
    /\ processed_item_count = 0
    /\ outcomes = <<>>
    /\ files = {}
    /\ run_result = NoResult

Init ==
    /\ data \in Inputs
    /\ data_name \in Names
    /\ pc = "new"
    /\ i = 0
    /\ max_width = 0
    /\ max_height = 0
    /\ decoded = <<>>
    /\ vres = NoResult
    /\ idx = 0
    /\ doc = <<>>
    /\ title = ""
    /\ pres = NoResult
    /\ RunIdle
    /\ PathIdle
    /\ PairIdle

\* ImageDataList::new, entry: the emptiness check and the loop set-up
NewEnter ==
    /\ pc = "new"
    /\ UNCHANGED <<runvars, pathvars, pairvars>>
    /\ IF IsEmptyData(data)
       THEN /\ vres' = EmptyData
            /\ pc' = "rejected"
       ELSE /\ vres' = vres
            /\ pc' = "new_loop"
    /\ max_width' = 0
    /\ max_height' = 0
    /\ i' = 0
    /\ UNCHANGED <<data, data_name, decoded, idx, doc, title, pres>>

\* ImageDataList::new, one loop iteration
NewDecode ==
    /\ pc = "new_loop"
    /\ UNCHANGED <<runvars, pathvars, pairvars>>
    /\ i < Len(data)
    /\ decoded' = Append(decoded, i)
    /\ LET st == LoopBody([i |-> i, max_width |-> max_width, max_height |-> max_height,
                           vres |-> vres, pc |-> pc], data[i + 1])
       IN  /\ i' = st.i
           /\ max_width' = st.max_width
           /\ max_height' = st.max_height
           /\ vres' = st.vres
           /\ pc' = st.pc
    /\ UNCHANGED <<data, data_name, idx, doc, title, pres>>

\* ImageDataList::new, after the loop
NewReturn ==
    /\ pc = "new_loop"
    /\ UNCHANGED <<runvars, pathvars, pairvars>>
    /\ i = Len(data)
    /\ vres' = OkList(data, data_name, max_height, max_width)
    /\ pc' = "validated"
    /\ UNCHANGED <<data, data_name, i, max_width, max_height, decoded,
                   idx, doc, title, pres>>

\* PdfFile::create_file, entry: the document and its title
CreateEnter ==
    /\ pc = "validated"
    /\ UNCHANGED <<runvars, pathvars, pairvars>>
    /\ doc' = <<>>
    /\ title' = vres.data_name
    /\ idx' = 0
    /\ pc' = "create_loop"
    /\ UNCHANGED <<data, data_name, i, max_width, max_height, decoded, vres, pres>>

\* PdfFile::create_file, one loop iteration
CreateImage ==
    /\ pc = "create_loop"
    /\ UNCHANGED <<runvars, pathvars, pairvars>>
    /\ idx < len(vres)
    /\ LET st == CreateBody([idx |-> idx, doc |-> doc, pres |-> pres, pc |-> pc], vres)
       IN  /\ idx' = st.idx
           /\ doc' = st.doc
           /\ pres' = st.pres
           /\ pc' = st.pc
    /\ UNCHANGED <<data, data_name, i, max_width, max_height, decoded, vres, title>>

\* PdfFile::create_file, after the loop: doc.render succeeds or fails
CreateRender ==
    /\ pc = "create_loop"
    /\ UNCHANGED <<runvars, pathvars, pairvars>>
    /\ idx = len(vres)
    /\ \E rendered \in BOOLEAN :
          IF rendered
          THEN /\ pres' = OkPdf(vres, title, doc)
               /\ pc' = "created"
          ELSE /\ pres' = PdfCreationError("render", 0)
               /\ pc' = "create_failed"
    /\ UNCHANGED <<data, data_name, i, max_width, max_height, decoded, vres,
                   idx, doc, title>>

Next ==
    \/ NewEnter
    \/ NewDecode
    \/ NewReturn
    \/ CreateEnter
    \/ CreateImage
    \/ CreateRender

Spec == Init /\ [][Next]_vars

(***************************************************************************)
(* What the claims speak of.                                               *)
(***************************************************************************)
\* ImageDataList::new has returned
Returned == pc \notin {"new", "new_loop"}

\* a blob that is no image in any supported raster format
Undecodable(bytes) == bytes.kind = "junk"

\* the 0-based positions of the undecodable blobs of a list
BadAt(d) == {k \in 0..(Len(d) - 1) : Undecodable(d[k + 1])}

Least(S) == CHOOSE m \in S : \A n \in S : m <= n

Greatest(S) == CHOOSE m \in S : \A n \in S : n <= m

Range(f) == {f[k] : k \in DOMAIN f}

\* the image elements of a document, in order
ImagesOf(d) == SelectSeq(d, LAMBDA e : e.type = "Image")

(***************************************************************************)
(* C1: ImageDataList::new on an empty list fails with EmptyData, whatever  *)
(* the name, and no blob has been decoded when it does.                    *)
(***************************************************************************)
C1_EmptyListIsEmptyData ==
    (Len(data) = 0 /\ pc # "new")
        => (pc = "rejected" /\ vres = EmptyData /\ decoded = <<>>)

C1_Witness == Len(data) = 0 /\ pc = "rejected" /\ data_name = "scan"

(***************************************************************************)
(* C2: when exactly one blob of a non-empty list is undecodable, at        *)
(* position k, ImageDataList::new fails with NotAnImage of index k.        *)
(***************************************************************************)
C2_SingleBadBlobIndex ==
    \A k \in 0..(Len(data) - 1) :
        (BadAt(data) = {k} /\ Returned)
            => (pc = "rejected" /\ vres = [kind |-> "NotAnImage", index |-> k])

\* a bad blob between two images, reported
C2_Witness == Len(data) = 3 /\ BadAt(data) = {1} /\ pc = "rejected"

(***************************************************************************)
(* C3: with several undecodable blobs ImageDataList::new stops at the      *)
(* first: it reports the least such index, returns no collection, and      *)
(* decodes exactly the blobs up to that index and none after it.           *)
(***************************************************************************)
C3_StopsAtFirstBadBlob ==
    Cardinality(BadAt(data)) >= 2 =>
        LET m == Least(BadAt(data))
        IN  /\ \A j \in Range(decoded) : j <= m
            /\ Returned =>
                  /\ pc = "rejected"
                  /\ vres = [kind |-> "NotAnImage", index |-> m]
                  /\ decoded = [j \in 1..(m + 1) |-> j - 1]
                  /\ pres = NoResult /\ doc = <<>>

\* two bad blobs after an image: the call has returned with the first of them
C3_Witness ==
    /\ Len(data) = 3 /\ BadAt(data) = {1, 2}
    /\ pc = "rejected" /\ vres.kind = "NotAnImage"

(***************************************************************************)
(* C4: a non-empty list whose blobs all decode yields a collection of the  *)
(* input's length, not empty, whose max_width and max_height are the       *)
(* largest decoded width and the largest decoded height.                   *)
(***************************************************************************)
C4_AggregatesAreMaxima ==
    (Len(data) > 0 /\ BadAt(data) = {} /\ Returned) =>
        /\ vres.kind = "Ok"
        /\ len(vres) = Len(data)
        /\ ~is_empty(vres)
        /\ vres.max_width = Greatest({data[k].w : k \in 1..Len(data)})
        /\ vres.max_height = Greatest({data[k].h : k \in 1..Len(data)})

\* the two maxima come from different images, the widest one first
C4_Witness ==
    /\ Len(data) >= 2 /\ vres.kind = "Ok"
    /\ data[1].w = vres.max_width /\ data[1].h < vres.max_height
    /\ data[2].h = vres.max_height /\ data[2].w < vres.max_width

(***************************************************************************)
(* C5: a constructed ImageDataList holds the input blobs unchanged and in  *)
(* input order, and create_file makes page k from images()[k]: the image   *)
(* elements of the document are the input blobs in input order.            *)
(***************************************************************************)
C5_PageOrderIsInputOrder ==
    /\ vres.kind = "Ok" =>
          /\ len(vres) = Len(data)
          /\ \A k \in 1..Len(data) : images(vres)[k] = data[k]
    /\ LET pages == ImagesOf(doc)
       IN  /\ Len(pages) <= Len(data)
           /\ \A k \in 1..Len(pages) : pages[k].image = data[k]
    /\ pres.kind = "Ok" =>
          /\ ImagesOf(pres.pdf_data.elements) = ImagesOf(doc)
          /\ Len(ImagesOf(doc)) = Len(data)

\* a document of three pages from three different blobs
C5_Witness ==
    /\ pres.kind = "Ok" /\ Len(data) = 3
    /\ data[1] # data[2] /\ data[2] # data[3] /\ data[1] # data[3]

(***************************************************************************)
(* The layout claims' own quantities, for a 190 mm x 277 mm usable area at *)
(* 300 DPI: 1 px = 25.4 / 300 mm = 127 / 1500 mm.                          *)
(***************************************************************************)
Mm(px) == Rat(px * 127, 1500)

\* min(usable_w / w_mm, usable_h / h_mm)
ScaleUnrotated(b) == RatMin(RatDiv(RatInt(190), Mm(b.w)), RatDiv(RatInt(277), Mm(b.h)))

\* min(usable_w / h_mm, usable_h / w_mm)
ScaleRotated(b) == RatMin(RatDiv(RatInt(190), Mm(b.h)), RatDiv(RatInt(277), Mm(b.w)))

\* the image elements pushed so far
Placed == Range(ImagesOf(doc))

Rotated(e) == e.rotate_deg = "Some(90)"

(***************************************************************************)
(* C6: an image is rotated clockwise by 90 degrees exactly when its        *)
(* rotated scale is strictly greater than its unrotated scale; when the    *)
(* two are equal it is not rotated.                                        *)
(***************************************************************************)
C6_RotatesIffStrictlyGreater ==
    \A e \in Placed :
        /\ e.rotate_deg \in {"None", "Some(90)"}
        /\ Rotated(e) <=> RatLess(ScaleUnrotated(e.image), ScaleRotated(e.image))

\* a tie: both orientations give the same scale, and the image is not rotated
C6_Witness ==
    \E e \in Placed :
        /\ ScaleUnrotated(e.image) = ScaleRotated(e.image)
        /\ ~Rotated(e)

(***************************************************************************)
(* C7: the scale of every placed image is greater than 0 and at most 1.0,  *)
(* also when both orientations would allow more than 1.0.                  *)
(***************************************************************************)
C7_ScaleInUnitRange ==
    \A e \in Placed :
        (e.image.w > 0 /\ e.image.h > 0) =>
            /\ RatLess(RatInt(0), e.scale)
            /\ ~RatLess(One, e.scale)

\* both uncapped scales exceed 1.0 and the image is placed at 1.0
C7_Witness ==
    \E e \in Placed :
        /\ RatLess(One, ScaleUnrotated(e.image))
        /\ RatLess(One, ScaleRotated(e.image))
        /\ e.scale = One

(***************************************************************************)
(* C8: the orientation is chosen on the uncapped scales and only the       *)
(* chosen scale is capped: unrotated above 1.0 and rotated below it gives  *)
(* (no rotation, 1.0); both above 1.0 with the rotated one greater gives   *)
(* (rotation, 1.0).                                                        *)
(***************************************************************************)
C8_CapAfterSelection ==
    \A e \in Placed :
        LET u == ScaleUnrotated(e.image)
            r == ScaleRotated(e.image)
        IN  /\ e.scale = RatMin(IF Rotated(e) THEN r ELSE u, One)
            /\ (RatLess(One, u) /\ RatLess(r, One)) => (~Rotated(e) /\ e.scale = One)
            /\ (RatLess(One, u) /\ RatLess(u, r)) => (Rotated(e) /\ e.scale = One)

\* 1870 x 2494 px: unrotated 1.20 and rotated 0.90 to two decimals, not rotated, 1.0
C8_Witness ==
    \E e \in Placed :
        /\ e.image.w = 1870 /\ e.image.h = 2494
        /\ RatLess(Rat(119, 100), ScaleUnrotated(e.image))
        /\ RatLess(ScaleUnrotated(e.image), Rat(121, 100))
        /\ RatLess(Rat(89, 100), ScaleRotated(e.image))
        /\ RatLess(ScaleRotated(e.image), Rat(91, 100))
        /\ ~Rotated(e) /\ e.scale = One

(***************************************************************************)
(* C9, as claimed: for a 100 x 50 px image the unrotated scale is greater  *)
(* than the rotated scale and the decision is (no rotation,                *)
(* min(unrotated scale, 1.0)).                                             *)
(***************************************************************************)
C9_AsClaimed ==
    \A e \in Placed :
        (e.image.w = 100 /\ e.image.h = 50) =>
            /\ RatLess(ScaleRotated(e.image), ScaleUnrotated(e.image))
            /\ ~Rotated(e)
            /\ e.scale = RatMin(ScaleUnrotated(e.image), One)

(***************************************************************************)
(* C9, amended: for a 100 x 50 px image the rotated scale (4155/127) is    *)
(* greater than the unrotated scale (2850/127) and the decision is         *)
(* (clockwise 90 degrees, min(rotated scale, 1.0) = 1.0).                  *)
(***************************************************************************)
C9_WideImageRotates ==
    \A e \in Placed :
        (e.image.w = 100 /\ e.image.h = 50) =>
            /\ ScaleUnrotated(e.image) = <<2850, 127>>
            /\ ScaleRotated(e.image) = <<4155, 127>>
            /\ Rotated(e)
            /\ e.scale = RatMin(ScaleRotated(e.image), One)
            /\ e.scale = One

C9_Witness == \E e \in Placed : e.image.w = 100 /\ e.image.h = 50 /\ Rotated(e)

(***************************************************************************)
(* C10, as claimed: for a 50 x 300 px image the rotated scale is strictly  *)
(* greater than the unrotated scale and the image is rotated.              *)
(***************************************************************************)
C10_AsClaimed ==
    \A e \in Placed :
        (e.image.w = 50 /\ e.image.h = 300) =>
            /\ RatLess(ScaleUnrotated(e.image), ScaleRotated(e.image))
            /\ Rotated(e)

(***************************************************************************)
(* C10, amended: for a 50 x 300 px image the unrotated scale (1385/127)    *)
(* is strictly greater than the rotated scale (950/127) and the image is   *)
(* not rotated, at scale 1.0.                                              *)
(***************************************************************************)
C10_TallImageKeepsOrientation ==
    \A e \in Placed :
        (e.image.w = 50 /\ e.image.h = 300) =>
            /\ ScaleUnrotated(e.image) = <<1385, 127>>
            /\ ScaleRotated(e.image) = <<950, 127>>
            /\ ~Rotated(e)
            /\ e.scale = One

C10_Witness == \E e \in Placed : e.image.w = 50 /\ e.image.h = 300 /\ ~Rotated(e)

(***************************************************************************)
(* C11: for n images create_file pushes n image elements and n - 1 page    *)
(* breaks, one between each image and the next and none after the last.    *)
(***************************************************************************)
C11_BreaksOnlyBetweenImages ==
    /\ \A k \in 1..Len(doc) :
          doc[k].type = (IF k % 2 = 1 THEN "Image" ELSE "PageBreak")
    /\ (pc = "create_loop" /\ idx < Len(data)) => Len(doc) = 2 * idx
    /\ pc = "created" =>
          /\ Len(doc) = 2 * Len(data) - 1
          /\ Len(ImagesOf(doc)) = Len(data)
          /\ doc[Len(doc)].type = "Image"
          /\ pres.pdf_data.elements = doc

\* three images: image, break, image, break, image
C11_Witness == pc = "created" /\ Len(data) = 3 /\ Len(doc) = 5

(***************************************************************************)
(* C12: create_file is all-or-nothing.  When an image cannot be loaded or  *)
(* converted, or the render fails, the call returns an error that carries  *)
(* no document, whatever was pushed before; nothing is returned before the *)
(* end; on success pdf_data holds all n pages.                             *)
(***************************************************************************)
C12_AllOrNothing ==
    /\ pc \in {"validated", "create_loop"} => pres = NoResult
    /\ (pc \in {"created", "create_failed"}
            /\ \E k \in 1..Len(data) : data[k].kind \in {"hdr", "alpha"})
          => pc = "create_failed"
    /\ pc = "create_failed" =>
          /\ pres.kind = "PdfCreationError"
          /\ DOMAIN pres = {"kind", "step", "no"}
    /\ pres.kind = "Ok" <=> pc = "created"
    /\ pc = "created" =>
          /\ Len(ImagesOf(pres.pdf_data.elements)) = Len(data)
          /\ \A k \in 1..Len(data) :
                ImagesOf(pres.pdf_data.elements)[k].image = data[k]

\* the third image fails after two pages were pushed: an error and nothing else
C12_Witness ==
    /\ pc = "create_failed" /\ pres.no = 3
    /\ Len(ImagesOf(doc)) = 2

C14_TitleAndFileNameAreDataName ==
    /\ pc \in {"create_loop", "created", "create_failed"} => title = data_name
    /\ pres.kind = "Ok" =>
          /\ pres.file_name = data_name
          /\ pres.pdf_data.title = data_name
          /\ pres.image_data_list.data_name = data_name

C14_Witness == pres.kind = "Ok" /\ pres.file_name = "album" /\ title = "album"

(***************************************************************************)
(***************************************************************************)
(* The workflow: workflow::run over the entries of an input directory      *)
(*   (src/src/workflow.rs, src/src/domain/input_source/).                  *)
(*                                                                         *)
(* File names are byte strings (sequences of ASCII codes), so that         *)
(* Path::extension, to_lowercase and the byte-wise order of sort() are     *)
(* computed, not assumed.                                                  *)
(***************************************************************************)
(***************************************************************************)
\* "." as a byte
Dot == <<46>>

\* Option<&OsStr>
None == [some |-> FALSE, v |-> <<>>]

Some(v) == [some |-> TRUE, v |-> v]

\* position of the last "." of a file name, 0 when it has none
LastDot(name) ==
    LET dots == {k \in 1..Len(name) : <<name[k]>> = Dot}
    IN  IF dots = {} THEN 0 ELSE Greatest(dots)

\* Path::extension: what follows the last ".", unless the name has no "." or
\* its only "." is its first byte
extension(name) ==
    IF LastDot(name) <= 1 THEN None
    ELSE Some(SubSeq(name, LastDot(name) + 1, Len(name)))

\* Path::file_stem: the name without its extension
file_stem(name) ==
    IF name = <<>> THEN None
    ELSE IF LastDot(name) <= 1 THEN Some(name)
    ELSE Some(SubSeq(name, 1, LastDot(name) - 1))

\* str::to_lowercase on ASCII
to_lowercase(str) ==
    [k \in 1..Len(str) |-> IF str[k] >= 65 /\ str[k] <= 90 THEN str[k] + 32 ELSE str[k]]

\* "jpg" | "jpeg" | "png" | "gif" | "bmp"
ImageExtensions ==
    {<<106, 112, 103>>, <<106, 112, 101, 103>>, <<112, 110, 103>>,
     <<103, 105, 102>>, <<98, 109, 112>>}

\* "zip"
ZipExtension == <<122, 105, 112>>

\* byte-wise lexicographic order: Ord for String and for the file name of a PathBuf
RECURSIVE BytesLess(_, _)
BytesLess(a, b) ==
    IF b = <<>> THEN FALSE
    ELSE IF a = <<>> THEN TRUE
    ELSE IF a[1] # b[1] THEN a[1] < b[1]
    ELSE BytesLess(Tail(a), Tail(b))

RECURSIVE Insert(_, _)
Insert(x, sorted) ==
    IF sorted = <<>> THEN <<x>>
    ELSE IF BytesLess(x, sorted[1]) THEN <<x>> \o sorted
    ELSE <<sorted[1]>> \o Insert(x, Tail(sorted))

\* variant: the collected names are left in enumeration order
sort_Unsorted(names) == names

\* Vec::sort on names
RECURSIVE sort(_)
sort(names) == IF names = <<>> THEN <<>> ELSE Insert(names[1], sort(Tail(names)))

(***************************************************************************)
(* Paths.  A path is its file name and what fs::metadata finds there:      *)
(*   dir, file   a directory, a regular file (symlinks are followed)       *)
(*   other       something else, such as a FIFO                            *)
(*   notfound    nothing (also a symlink whose target is gone)             *)
(*   denied      metadata fails with another I/O error                     *)
(***************************************************************************)
Metas == {"dir", "file", "other", "notfound", "denied"}

exists(path) == path.meta \in {"dir", "file", "other"}

is_dir(path) == path.meta = "dir"

is_file(path) == path.meta = "file"

\* PathError values; InvalidPath carries the message
InvalidPath(msg) == [kind |-> "InvalidPath", msg |-> msg, path |-> <<>>]

PathErr(kind, path) == [kind |-> kind, msg |-> "", path |-> path.name]

\* variant: the is_dir check is missing
DirectoryPath_new_NoDirCheck(path) ==
    IF ~exists(path) THEN InvalidPath("does not exist")
    ELSE [kind |-> "DirectoryPath", msg |-> "", path |-> path.name]

\* DirectoryPath::new
DirectoryPath_new(path) ==
    IF ~exists(path) THEN InvalidPath("does not exist")
    ELSE IF ~is_dir(path) THEN InvalidPath("is not a directory")
    ELSE [kind |-> "DirectoryPath", msg |-> "", path |-> path.name]

\* DirectoryPath::as_path, ZipFilePath::as_path
as_path(p) == p.path

\* variant: the extension is tested before the path is looked at
ZipFilePath_new_ExtensionFirst(path) ==
    IF extension(path.name) # Some(ZipExtension) THEN InvalidPath("is not a .zip file")
    ELSE IF ~exists(path) THEN InvalidPath("does not exist")
    ELSE IF ~is_file(path) THEN InvalidPath("is not a file")
    ELSE [kind |-> "ZipFilePath", msg |-> "", path |-> path.name]

\* ZipFilePath::new
ZipFilePath_new(path) ==
    IF ~exists(path) THEN InvalidPath("does not exist")
    ELSE IF ~is_file(path) THEN InvalidPath("is not a file")
    ELSE IF extension(path.name) # Some(ZipExtension) THEN InvalidPath("is not a .zip file")
    ELSE [kind |-> "ZipFilePath", msg |-> "", path |-> path.name]

\* InputSource::Directory(dir), InputSource::ZipFile(zip)
Source(variant, inner) == [kind |-> variant, msg |-> "", path |-> inner.path]

\* variant: every existing path that is no directory is taken for an archive
InputSource_new_AnyFile(path) ==
    IF path.meta = "notfound" THEN PathErr("NotFound", path)
    ELSE IF path.meta = "denied" THEN PathErr("IoError", path)
    ELSE IF is_dir(path) THEN Source("Directory", DirectoryPath_new(path))
    ELSE Source("ZipFile", [path |-> path.name])

\* InputSource::new
InputSource_new(path) ==
    IF path.meta = "notfound" THEN PathErr("NotFound", path)
    ELSE IF path.meta = "denied" THEN PathErr("IoError", path)
    ELSE IF is_dir(path)
    THEN LET dir == DirectoryPath_new(path)
         IN  IF dir.kind # "DirectoryPath" THEN dir ELSE Source("Directory", dir)
    ELSE IF is_file(path)
    THEN LET zip == ZipFilePath_new(path)
         IN  IF zip.kind # "ZipFilePath" THEN zip ELSE Source("ZipFile", zip)
    ELSE PathErr("UnsupportedType", path)

(***************************************************************************)
(* ImageDataList::new and PdfFile::create_file as whole calls: the loops   *)
(* of the conversion above, run to their end.                              *)
(***************************************************************************)
RECURSIVE NewLoop(_, _)
NewLoop(st, d) ==
    IF st.pc = "rejected" \/ st.i >= Len(d) THEN st
    ELSE NewLoop(LoopBody(st, d[st.i + 1]), d)

ImageDataList_new(d, name) ==
    IF IsEmptyData(d) THEN EmptyData
    ELSE LET st == NewLoop([i |-> 0, max_width |-> 0, max_height |-> 0,
                            vres |-> NoResult, pc |-> "new_loop"], d)
         IN  IF st.pc = "rejected" THEN st.vres
             ELSE OkList(d, name, st.max_height, st.max_width)

RECURSIVE CreateLoop(_, _)
CreateLoop(st, list) ==
    IF st.pc = "create_failed" \/ st.idx >= len(list) THEN st
    ELSE CreateLoop(CreateBody(st, list), list)

\* rendered: whether doc.render succeeds
create_file(list, rendered) ==
    LET st == CreateLoop([idx |-> 0, doc |-> <<>>, pres |-> NoResult,
                          pc |-> "create_loop"], list)
    IN  IF st.pc = "create_failed" THEN st.pres
        ELSE IF rendered THEN OkPdf(list, list.data_name, st.doc)
        ELSE PdfCreationError("render", 0)

(***************************************************************************)
(* The entries of the input directory and what they hold.                  *)
(*                                                                         *)
(* An item is one entry of a directory source or of an archive:            *)
(*   name      its file name (directory) or entry name (archive)           *)
(*   is_file   what Path::is_file answers for the path is_image_file is    *)
(*             given: the entry's own path for a directory; for an         *)
(*             archive the entry name, resolved against the working        *)
(*             directory of the process                                    *)
(*   readable  whether fs::read / by_name and io::copy succeed             *)
(*   bytes     its content                                                 *)
(* An entry of the input directory has a name, a meta (see Metas), listed  *)
(* (whether the directory iterator yields it as Ok), open_ok (whether      *)
(* read_dir, or File::open and ZipArchive::new, succeed on it) and items.  *)
(***************************************************************************)
Item(name, isfile, readable, bytes) ==
    [name |-> name, is_file |-> isfile, readable |-> readable, bytes |-> bytes]

Entry(name, meta, listed, open_ok, items) ==
    [name |-> name, meta |-> meta, listed |-> listed, open_ok |-> open_ok,
     items |-> items]

\* "a.PNG", "b.png", "c.txt", ".png"
N_a_PNG == <<97, 46, 80, 78, 71>>

N_b_png == <<98, 46, 112, 110, 103>>

N_c_txt == <<99, 46, 116, 120, 116>>

N_dot_png == <<46, 112, 110, 103>>

\* "B.jpeg": sorts before every lower-case name
N_B_jpeg == <<66, 46, 106, 112, 101, 103>>

Wide == Blob("img", 100, 50)

Tall == Blob("img", 50, 300)

\* directories: "p" two images; "q" nothing that counts as an image (a dot file
\* and a subdirectory called b.png); "r" a text file, an image and a non-image
\* with an image's extension that sorts after it; "s" a text file and an image
\* that cannot be read; "t" an image genpdf refuses; "u" cannot be listed;
\* "v" one image
DirEntries ==
    {Entry(<<112>>, "dir", TRUE, TRUE,
           {Item(N_b_png, TRUE, TRUE, Wide), Item(N_a_PNG, TRUE, TRUE, Tall)}),
     Entry(<<113>>, "dir", TRUE, TRUE,
           {Item(N_dot_png, TRUE, TRUE, Wide), Item(N_b_png, FALSE, FALSE, JunkBlob)}),
     Entry(<<114>>, "dir", TRUE, TRUE,
           {Item(N_c_txt, TRUE, TRUE, JunkBlob), Item(N_a_PNG, TRUE, TRUE, JunkBlob),
            Item(N_B_jpeg, TRUE, TRUE, Tall)}),
     Entry(<<115>>, "dir", TRUE, TRUE,
           {Item(N_c_txt, TRUE, TRUE, JunkBlob), Item(N_b_png, TRUE, FALSE, Wide)}),
     Entry(<<116>>, "dir", TRUE, TRUE, {Item(N_a_PNG, TRUE, TRUE, Blob("alpha", 300, 300))}),
     Entry(<<117>>, "dir", TRUE, FALSE, {}),
     Entry(<<118>>, "dir", TRUE, TRUE, {Item(N_b_png, TRUE, TRUE, Wide)})}

\* archives: "p.zip" two images whose names are also files in the working
\* directory; "v.zip" an image and a text file, neither name a file in the
\* working directory; "w.zip" no valid archive
ZipEntries ==
    {Entry(<<112>> \o Dot \o ZipExtension, "file", TRUE, TRUE,
           {Item(N_b_png, TRUE, TRUE, Tall), Item(N_a_PNG, TRUE, TRUE, Wide)}),
     Entry(<<118>> \o Dot \o ZipExtension, "file", TRUE, TRUE,
           {Item(N_a_PNG, FALSE, TRUE, Tall), Item(N_c_txt, FALSE, TRUE, JunkBlob)}),
     Entry(<<119>> \o Dot \o ZipExtension, "file", TRUE, FALSE, {})}

\* what is no source: a text file, a file "x.ZIP", a FIFO, a dangling symlink
\* "y.zip", a path whose metadata cannot be read, an entry the iterator fails on
OtherEntries ==
    {Entry(N_c_txt, "file", TRUE, TRUE, {}),
     Entry(<<120, 46, 90, 73, 80>>, "file", TRUE, TRUE, {}),
     Entry(<<102>>, "other", TRUE, TRUE, {}),
     Entry(<<121>> \o Dot \o ZipExtension, "notfound", TRUE, TRUE, {}),
     Entry(<<100>>, "denied", TRUE, TRUE, {}),
     Entry(<<101>>, "dir", FALSE, TRUE, {})}

SourceEntries == DirEntries \cup ZipEntries \cup OtherEntries

\* the entries of the input directory, in the order read_dir yields them
MaxEntries == 2

Listings ==
    {l \in BoundedSeq(SourceEntries, MaxEntries) :
        \A j, k \in 1..Len(l) : j # k => l[j].name # l[k].name}

\* args.input_dir: "in" as a directory (that can be listed or not), and as
\* anything else a path can lead to
InputDirs ==
    {[name |-> <<105, 110>>, meta |-> m, open_ok |-> o] : m \in Metas, o \in BOOLEAN}

\* the orders in which a set of items can be enumerated
Orders(S) == {o \in [1..Cardinality(S) -> S] : Range(o) = S}

(***************************************************************************)
(* workflow.rs: is_image_file, process_directory, process_zip_file.        *)
(***************************************************************************)
\* is_image_file; isfile is what path.is_file() answers
is_image_file(name, isfile) ==
    IF isfile /\ file_stem(name).some
    THEN LET ext == extension(name)
         IN  IF ext.some THEN to_lowercase(ext.v) \in ImageExtensions ELSE FALSE
    ELSE FALSE

\* DirectoryPath::folder_name: the last component of the path
folder_name(dir) == Some(dir.path)

\* ZipFilePath::file_name_with_extension
file_name_with_extension(zip, with_extension) ==
    IF with_extension THEN Some(zip.path) ELSE file_stem(zip.path)

\* Option::unwrap_or
unwrap_or(opt, default) == IF opt.some THEN opt.v ELSE default

\* "untitled_folder", "untitled_zip" (only their first byte matters here)
untitled_folder == <<117, 110, 116, 105, 116, 108, 101, 100, 95, 102>>

untitled_zip == <<117, 110, 116, 105, 116, 108, 101, 100, 95, 122>>

\* AppError and Result<(), AppError>
AppErr(kind, detail) == [kind |-> kind, detail |-> detail]

IoErr == [kind |-> "io::Error"]

OkUnit == [kind |-> "Ok", err |-> NoResult]

Failed(e) == [kind |-> "Err", err |-> e]

\* the outcomes fs::write can have
SaveOutcomes == {"written", "failed", "failed_truncated"}

\* what a call of process_directory or process_zip_file did:
\*   order    entry names in the order they were enumerated
\*   handed   names of the entries whose bytes were handed to ImageDataList::new
\*   called   whether ImageDataList::new was called
\*   blobs    its argument
\*   writes   the files written
Done(result, order, handed, called, blobs, writes) ==
    [result |-> result, order |-> order, handed |-> handed, called |-> called,
     blobs |-> blobs, writes |-> writes]

\* step 3 of both functions: validate, load the font, create the document, save
Convert(order, names, images_data, dname, font_ok, rendered, saved) ==
    LET image_list == ImageDataList_new(images_data, dname)
        pdf_file == create_file(image_list, rendered)
        out(result, writes) == Done(result, order, names, TRUE, images_data, writes)
    IN  IF image_list.kind # "Ok"
        THEN out(Failed(AppErr("ImageValidation", image_list)), {})
        ELSE IF ~font_ok THEN out(Failed(AppErr("Io", IoErr)), {})
        ELSE IF pdf_file.kind # "Ok" THEN out(Failed(AppErr("Pdf", pdf_file)), {})
        ELSE IF saved = "written"
        THEN out(OkUnit, {[name |-> dname, content |-> pdf_file.pdf_data]})
        ELSE out(Failed(AppErr("Pdf", [kind |-> "PdfSaveError"])),
                 IF saved = "failed_truncated"
                 THEN {[name |-> dname, content |-> [title |-> <<>>, elements |-> <<>>]]}
                 ELSE {})

\* the item of a source that has a given name
ItemNamed(entry, name) == CHOOSE it \in entry.items : it.name = name

\* names of the enumerated items that is_image_file accepts, in enumeration order
ImageNames(order) ==
    LET kept == SelectSeq(order, LAMBDA it : is_image_file(it.name, it.is_file))
    IN  [k \in 1..Len(kept) |-> kept[k].name]

\* variant: the early return for a source without images is missing
Collect_NoEmptyCheck(entry, order, dname, font_ok, rendered, saved) ==
    LET names == [k \in 1..Len(order) |-> order[k].name]
        sorted == sort(ImageNames(order))
        images_data == [k \in 1..Len(sorted) |-> ItemNamed(entry, sorted[k]).bytes]
    IN  IF \E k \in 1..Len(sorted) : ~ItemNamed(entry, sorted[k]).readable
        THEN Done(Failed(AppErr("Io", IoErr)), names, <<>>, FALSE, <<>>, {})
        ELSE Convert(names, sorted, images_data, dname, font_ok, rendered, saved)

\* steps 1 and 2 of both functions, given the source opened: collect, sort, read
Collect(entry, order, dname, font_ok, rendered, saved) ==
    LET names == [k \in 1..Len(order) |-> order[k].name]
        sorted == sort(ImageNames(order))
        images_data == [k \in 1..Len(sorted) |-> ItemNamed(entry, sorted[k]).bytes]
    IN  IF sorted = <<>> THEN Done(OkUnit, names, <<>>, FALSE, <<>>, {})
        ELSE IF \E k \in 1..Len(sorted) : ~ItemNamed(entry, sorted[k]).readable
        THEN Done(Failed(AppErr("Io", IoErr)), names, <<>>, FALSE, <<>>, {})
        ELSE Convert(names, sorted, images_data, dname, font_ok, rendered, saved)

\* process_directory
process_directory(dir, entry, order, font_ok, rendered, saved) ==
    IF ~entry.open_ok
    THEN Done(Failed(AppErr("Path", PathErr("IoError", entry))), <<>>, <<>>, FALSE, <<>>, {})
    ELSE Collect(entry, order, unwrap_or(folder_name(dir), untitled_folder),
                 font_ok, rendered, saved)

\* process_zip_file
process_zip_file(zip, entry, order, font_ok, rendered, saved) ==
    IF ~entry.open_ok
    THEN Done(Failed(AppErr("Io", IoErr)), <<>>, <<>>, FALSE, <<>>, {})
    ELSE Collect(entry, order, unwrap_or(file_name_with_extension(zip, FALSE), untitled_zip),
                 font_ok, rendered, saved)

\* fs::write on the output directory: a file of the same name is replaced
Written(fs, writes) ==
    {f \in fs : \A w \in writes : w.name # f.name} \cup writes

(***************************************************************************)
(* workflow::run as a state machine: one step for what precedes the loop,  *)
(* one step per entry of the input directory, one step for the verdict.    *)
(***************************************************************************)
\* variant: an Err of a source is returned from run, as by the ? operator
HandleResult_Propagate(count, result) ==
    IF result.kind = "Ok" THEN [count |-> count + 1, stop |-> FALSE]
    ELSE [count |-> count, stop |-> TRUE]

\* the match on a source's result: count an Ok, report an Err and go on
HandleResult(count, result) ==
    IF result.kind = "Ok" THEN [count |-> count + 1, stop |-> FALSE]
    ELSE [count |-> count, stop |-> FALSE]

NoItemsProcessed(dir) == AppErr("NoItemsProcessed", [path |-> as_path(dir)])

\* variant: a run that processed nothing is a success too
Verdict_AlwaysOk(count, dir) == OkUnit

\* step 5 of run
Verdict(count, dir) == IF count = 0 THEN Failed(NoItemsProcessed(dir)) ELSE OkUnit

\* what run did with one entry; ran tells whether a process function was called
Outcome(entry, source, ran, did) ==
    [name |-> entry.name, source |-> source, ran |-> ran, did |-> did]

NotRun == Done(NoResult, <<>>, <<>>, FALSE, <<>>, {})

\* no conversion is being stepped through
ConvIdle ==
    /\ data = <<>>
    /\ data_name = ""
    /\ pc = "idle"
    /\ i = 0
    /\ max_width = 0
    /\ max_height = 0
    /\ decoded = <<>>
    /\ vres = NoResult
    /\ idx = 0
    /\ doc = <<>>
    /\ title = ""
    /\ pres = NoResult

InitRun ==
    /\ ConvIdle
    /\ PathIdle
    /\ PairIdle
    /\ args_input_dir \in InputDirs
    /\ listing \in Listings
    /\ rpc = "run"
    /\ input_dir = NoResult
    /\ consumed = 0
    /\ processed_item_count = 0
    /\ outcomes = <<>>
    /\ files = {}
    /\ run_result = NoResult

\* run, steps 1 to 3 and the opening of the input directory
RunEnter ==
    /\ rpc = "run"
    /\ \E output_dir \in {"exists", "created", "uncreatable"} :
          LET dir == DirectoryPath_new(args_input_dir)
              err == IF dir.kind # "DirectoryPath" THEN AppErr("Path", dir)
                     ELSE IF output_dir = "uncreatable" THEN AppErr("Io", IoErr)
                     ELSE IF ~args_input_dir.open_ok
                     THEN AppErr("Path", PathErr("IoError", args_input_dir))
                     ELSE NoResult
          IN  /\ input_dir' = dir
              /\ IF err # NoResult
                 THEN /\ run_result' = Failed(err)
                      /\ rpc' = "aborted"
                 ELSE /\ run_result' = run_result
                      /\ rpc' = "loop"
    /\ UNCHANGED <<args_input_dir, listing, consumed, processed_item_count,
                   outcomes, files, convvars, pathvars, pairvars>>

\* the next entry of the input directory, while the loop runs
NextEntry == listing[consumed + 1]

\* run, one loop iteration: the iterator fails on the entry
RunAbort ==
    /\ rpc = "loop"
    /\ consumed < Len(listing)
    /\ ~NextEntry.listed
    /\ run_result' = Failed(AppErr("Io", IoErr))
    /\ rpc' = "aborted"
    /\ UNCHANGED <<args_input_dir, listing, input_dir, consumed,
                   processed_item_count, outcomes, files, convvars, pathvars, pairvars>>

\* run, one loop iteration: InputSource::new refuses the entry
RunSkip ==
    /\ rpc = "loop"
    /\ consumed < Len(listing)
    /\ NextEntry.listed
    /\ InputSource_new(NextEntry).kind \notin {"Directory", "ZipFile"}
    /\ outcomes' = Append(outcomes, Outcome(NextEntry, InputSource_new(NextEntry), FALSE, NotRun))
    /\ consumed' = consumed + 1
    /\ UNCHANGED <<args_input_dir, listing, rpc, input_dir, processed_item_count,
                   files, run_result, convvars, pathvars, pairvars>>

\* the rest of a loop iteration, once the process function has returned did
RunHandle(source, did) ==
    LET h == HandleResult(processed_item_count, did.result)
    IN  /\ outcomes' = Append(outcomes, Outcome(NextEntry, source, TRUE, did))
        /\ files' = Written(files, did.writes)
        /\ consumed' = consumed + 1
        /\ processed_item_count' = h.count
        /\ IF h.stop
           THEN /\ run_result' = did.result
                /\ rpc' = "aborted"
           ELSE UNCHANGED <<run_result, rpc>>
        /\ UNCHANGED <<args_input_dir, listing, input_dir, convvars, pathvars, pairvars>>

\* run, one loop iteration: the entry is a directory
RunDirectory ==
    /\ rpc = "loop"
    /\ consumed < Len(listing)
    /\ NextEntry.listed
    /\ LET source == InputSource_new(NextEntry)
       IN  /\ source.kind = "Directory"
           /\ \E order \in Orders(NextEntry.items), font_ok, rendered \in BOOLEAN,
                 saved \in SaveOutcomes :
                 RunHandle(source, process_directory(source, NextEntry, order,
                                                     font_ok, rendered, saved))

\* run, one loop iteration: the entry is an archive
RunZip ==
    /\ rpc = "loop"
    /\ consumed < Len(listing)
    /\ NextEntry.listed
    /\ LET source == InputSource_new(NextEntry)
       IN  /\ source.kind = "ZipFile"
           /\ \E order \in Orders(NextEntry.items), font_ok, rendered \in BOOLEAN,
                 saved \in SaveOutcomes :
                 RunHandle(source, process_zip_file(source, NextEntry, order,
                                                    font_ok, rendered, saved))

\* run, step 5
RunFinish ==
    /\ rpc = "loop"
    /\ consumed = Len(listing)
    /\ run_result' = Verdict(processed_item_count, input_dir)
    /\ rpc' = "done"
    /\ UNCHANGED <<args_input_dir, listing, input_dir, consumed,
                   processed_item_count, outcomes, files, convvars, pathvars, pairvars>>

NextRun ==
    \/ RunEnter
    \/ RunAbort
    \/ RunSkip
    \/ RunDirectory
    \/ RunZip
    \/ RunFinish

SpecRun == InitRun /\ [][NextRun]_vars

(***************************************************************************)
(* Claims about workflow::run, checked under SpecRun.                      *)
(***************************************************************************)
\* the entry was taken for a source and its process function returned an Err
SourceFailed(o) == o.ran /\ o.did.result.kind = "Err"

\* the entry was taken for a source and its process function returned Ok
SourceDone(o) == o.ran /\ o.did.result.kind = "Ok"

\* run has returned from step 5, after the loop
ReachedVerdict == rpc = "done"

\* run has returned
RunReturned == rpc \in {"done", "aborted"}

(***************************************************************************)
(* C15: in workflow::run the failure of one source never stops the run.    *)
(* The step in which a source fails leaves run in its loop, with no        *)
(* result, and leaves the counter, the outcomes recorded for the earlier   *)
(* entries and the output files of other names as they were; and a run     *)
(* that has ended stopped short of the last entry only where the directory *)
(* iterator itself failed, every entry before that which is a directory or *)
(* a zip file having been processed.                                       *)
(***************************************************************************)
C15_FailureStep ==
    (/\ rpc = "loop"
     /\ Len(outcomes') = Len(outcomes) + 1
     /\ SourceFailed(outcomes'[Len(outcomes')]))
    => /\ rpc' = "loop"
       /\ run_result' = NoResult
       /\ consumed' = consumed + 1
       /\ processed_item_count' = processed_item_count
       /\ SubSeq(outcomes', 1, Len(outcomes)) = outcomes
       /\ \A f \in files : f \in files' \/ \E w \in files' : w.name = f.name

C15_EveryEntryReached ==
    /\ Len(outcomes) = consumed
    /\ \A k \in 1..consumed :
          /\ outcomes[k].name = listing[k].name
          /\ outcomes[k].ran = (InputSource_new(listing[k]).kind \in {"Directory", "ZipFile"})
    /\ (RunReturned /\ \E k \in 1..consumed : SourceFailed(outcomes[k]))
          => \/ consumed = Len(listing)
             \/ ~listing[consumed + 1].listed

SourcesDone == {k \in 1..Len(outcomes) : SourceDone(outcomes[k])}

NamesInputDir(result) ==
    /\ result.kind = "Err"
    /\ result.err.kind = "NoItemsProcessed"
    /\ result.err.detail.path = args_input_dir.name

C16_AsClaimed ==
    RunReturned =>
        /\ run_result.kind = "Ok" => SourcesDone # {}
        /\ SourcesDone = {} => NamesInputDir(run_result)

(***************************************************************************)
(* C16, corrected: run returns Ok only if some source's processing         *)
(* returned Ok (the counter is the number of such sources); when run gets  *)
(* through every entry of the input directory and none did, it returns     *)
(* NoItemsProcessed naming the input directory.  A run that returns before *)
(* that, by one of its ? operators, returns a Path or Io error instead,    *)
(* whatever was processed.                                                 *)
(***************************************************************************)
C16_SuccessOnlyIfSomeSourceDone ==
    /\ processed_item_count = Cardinality(SourcesDone)
    /\ RunReturned => (run_result.kind = "Ok" <=> (ReachedVerdict /\ SourcesDone # {}))
    /\ (ReachedVerdict /\ SourcesDone = {}) => NamesInputDir(run_result)
    /\ rpc = "aborted" => run_result.kind = "Err" /\ run_result.err.kind \in {"Path", "Io"}

\* every source failed or was no source, and run says NoItemsProcessed
C16_Witness ==
    /\ ReachedVerdict
    /\ Len(outcomes) = 2
    /\ SourceFailed(outcomes[1])
    /\ ~outcomes[2].ran
    /\ NamesInputDir(run_result)

(***************************************************************************)
(* C17: for a directory and for a zip archive alike, the blobs handed to   *)
(* ImageDataList::new are exactly the entries whose name has one of the    *)
(* extensions jpg, jpeg, png, gif, bmp, compared without regard to case:   *)
(* 'a.PNG' in an archive is included, 'c.txt' is not.  Stated of every     *)
(* source that could be opened and read; the entries of a directory are    *)
(* its regular files, the entries of an archive are all its entries.       *)
(***************************************************************************)
HasImageExtension(name) ==
    extension(name).some /\ to_lowercase(extension(name).v) \in ImageExtensions

\* the entries of a source the claim speaks of
FileEntries(entry, variant) ==
    IF variant = "Directory" THEN {it \in entry.items : it.is_file} ELSE entry.items

ImageEntries(entry, variant) ==
    {it \in FileEntries(entry, variant) : HasImageExtension(it.name)}

Readable(entry, variant) ==
    entry.open_ok /\ \A it \in ImageEntries(entry, variant) : it.readable

C17_AsClaimed ==
    \A k \in 1..Len(outcomes) :
        LET o == outcomes[k]
            wanted == ImageEntries(listing[k], o.source.kind)
        IN  (o.ran /\ Readable(listing[k], o.source.kind)) =>
                /\ o.did.called = (wanted # {})
                /\ Range(o.did.handed) = {it.name : it \in wanted}
                /\ Range(o.did.blobs) = {it.bytes : it \in wanted}

(***************************************************************************)
(* C18: for a directory and for a zip archive alike, the blobs are handed  *)
(* to ImageDataList::new in ascending order of entry name, whatever the    *)
(* order of enumeration: every enumeration order of the same entries gives *)
(* the same sequence, so the index of NotAnImage is the position of the    *)
(* first undecodable blob in name order and the pages follow name order.   *)
(***************************************************************************)
Ascending(names) == \A k \in 1..(Len(names) - 1) : BytesLess(names[k], names[k + 1])

\* 0-based positions, in the order handed, of the blobs that are no image
BadPositions(blobs) == {k - 1 : k \in {j \in 1..Len(blobs) : ~get_dimensions(blobs[j]).ok}}

C18_HandedInNameOrder ==
    \A k \in 1..Len(outcomes) :
        LET o == outcomes[k].did
        IN  outcomes[k].ran /\ o.called =>
               /\ Ascending(o.handed)
               /\ \A other \in Orders(listing[k].items) : sort(ImageNames(other)) = o.handed
               /\ \A j \in 1..Len(o.handed) : o.blobs[j] = ItemNamed(listing[k], o.handed[j]).bytes
               /\ BadPositions(o.blobs) # {} =>
                     o.result = Failed(AppErr("ImageValidation",
                                              NotAnImage(Least(BadPositions(o.blobs)))))
               /\ o.writes # {} /\ o.result.kind = "Ok" =>
                     \A w \in o.writes :
                        LET pages == ImagesOf(w.content.elements)
                        IN  [j \in 1..Len(pages) |-> pages[j].image] = o.blobs

\* a directory whose non-image was enumerated first although it sorts last, and
\* an archive whose two images were enumerated in descending order and converted
C18_Witness ==
    /\ Len(outcomes) = 2
    /\ outcomes[1].source.kind = "Directory"
    /\ outcomes[1].did.order[1] = N_a_PNG
    /\ outcomes[1].did.handed = <<N_B_jpeg, N_a_PNG>>
    /\ outcomes[1].did.result.err.detail = NotAnImage(1)
    /\ outcomes[2].source.kind = "ZipFile"
    /\ outcomes[2].did.order = <<N_b_png, N_a_PNG>>
    /\ outcomes[2].did.handed = <<N_a_PNG, N_b_png>>
    /\ outcomes[2].did.writes # {}

(***************************************************************************)
(* C19: InputSource::new classifies a path by what is found there: an      *)
(* existing directory gives Directory, an existing regular file with the   *)
(* extension zip gives ZipFile, nothing there gives the error NotFound, a  *)
(* regular file without the extension zip gives an error, and what is      *)
(* neither a directory nor a regular file gives UnsupportedType; never     *)
(* ZipFile for a directory nor Directory for a file.  Checked of the       *)
(* classification run records for every entry it consumes.                 *)
(***************************************************************************)
PathErrorKinds == {"InvalidPath", "IoError", "UnsupportedType", "NotFound"}

C19_ClassifiesByKind ==
    \A k \in 1..Len(outcomes) :
        LET e == listing[k]
            src == outcomes[k].source
        IN  /\ e.meta = "dir" => src.kind = "Directory" /\ src.path = e.name
            /\ (e.meta = "file" /\ extension(e.name) = Some(ZipExtension))
                   => src.kind = "ZipFile" /\ src.path = e.name
            /\ e.meta = "notfound" => src.kind = "NotFound" /\ src.path = e.name
            /\ (e.meta = "file" /\ extension(e.name) # Some(ZipExtension))
                   => src.kind \in PathErrorKinds
            /\ e.meta = "other" => src.kind = "UnsupportedType" /\ src.path = e.name
            /\ src.kind = "ZipFile" => e.meta # "dir"
            /\ src.kind = "Directory" => e.meta # "file"
            /\ outcomes[k].ran = (src.kind \in {"Directory", "ZipFile"})

\* a FIFO refused as UnsupportedType, then a file "x.ZIP" refused as well
C19_Witness ==
    /\ Len(outcomes) = 2
    /\ listing[1].meta = "other" /\ outcomes[1].source.kind = "UnsupportedType"
    /\ listing[2].meta = "file" /\ to_lowercase(extension(listing[2].name).v) = ZipExtension
    /\ outcomes[2].source.kind = "InvalidPath"

(***************************************************************************)
(* C20: DirectoryPath::new succeeds exactly when the path exists and is a  *)
(* directory, and as_path() then returns the path given; a path that does  *)
(* not exist fails with InvalidPath saying that it does not exist (that    *)
(* check comes first), an existing path that is no directory fails with    *)
(* InvalidPath saying that it is not a directory.  Checked of run's call   *)
(* on args.input_dir, whose failure run returns as AppError::Path.         *)
(***************************************************************************)
C20_DirectoryPathNew ==
    rpc # "run" =>
        /\ (input_dir.kind = "DirectoryPath") = (args_input_dir.meta = "dir")
        /\ input_dir.kind = "DirectoryPath" => as_path(input_dir) = args_input_dir.name
        /\ args_input_dir.meta \in {"notfound", "denied"} =>
              input_dir = InvalidPath("does not exist")
        /\ args_input_dir.meta \in {"file", "other"} =>
              input_dir = InvalidPath("is not a directory")
        /\ input_dir.kind # "DirectoryPath" =>
              rpc = "aborted" /\ run_result = Failed(AppErr("Path", input_dir))

\* run was given a regular file as its input directory
C20_Witness ==
    /\ rpc = "aborted"
    /\ args_input_dir.meta = "file"
    /\ input_dir.kind = "InvalidPath" /\ input_dir.msg = "is not a directory"

(***************************************************************************)
(* The path constructors on their own: DirectoryPath::new, ZipFilePath::new *)
(* and InputSource::new called on a path, as the unit tests call them.     *)
(***************************************************************************)
\* "p", "v.zip", "x.ZIP", "c.txt", ".zip", "a.b.zip"
ProbeNames ==
    {<<112>>, <<118>> \o Dot \o ZipExtension, <<120, 46, 90, 73, 80>>, N_c_txt,
     Dot \o ZipExtension, <<97, 46, 98>> \o Dot \o ZipExtension}

ProbePaths == {[name |-> nm, meta |-> m] : nm \in ProbeNames, m \in Metas}

Probed(call, result) == [call |-> call, result |-> result]

InitPath ==
    /\ ConvIdle
    /\ RunIdle
    /\ PairIdle
    /\ probe \in ProbePaths
    /\ probed = Probed("none", NoResult)

CallDirectoryPathNew ==
    /\ probed.call = "none"
    /\ probed' = Probed("DirectoryPath::new", DirectoryPath_new(probe))
    /\ UNCHANGED <<probe, convvars, runvars, pairvars>>

CallZipFilePathNew ==
    /\ probed.call = "none"
    /\ probed' = Probed("ZipFilePath::new", ZipFilePath_new(probe))
    /\ UNCHANGED <<probe, convvars, runvars, pairvars>>

CallInputSourceNew ==
    /\ probed.call = "none"
    /\ probed' = Probed("InputSource::new", InputSource_new(probe))
    /\ UNCHANGED <<probe, convvars, runvars, pairvars>>

NextPath ==
    \/ CallDirectoryPathNew
    \/ CallZipFilePathNew
    \/ CallInputSourceNew

SpecPath == InitPath /\ [][NextPath]_vars

(***************************************************************************)
(* C21: ZipFilePath::new succeeds exactly when the path exists, is a       *)
(* regular file and has the extension zip, and as_path() is then the path  *)
(* given; the checks come in that order: a path that does not exist fails  *)
(* with the 'does not exist' InvalidPath even when it is named *.zip, an   *)
(* existing path that is no regular file with the 'is not a file' one, and *)
(* an existing file with another extension with the 'is not a .zip file'   *)
(* one.                                                                    *)
(***************************************************************************)
\* the name ends in ".zip" and has something before that
NamedZip(name) ==
    /\ Len(name) > 4
    /\ SubSeq(name, Len(name) - 3, Len(name)) = Dot \o ZipExtension

C21_ZipFilePathNew ==
    probed.call = "ZipFilePath::new" =>
        LET r == probed.result
        IN  /\ (r.kind = "ZipFilePath") =
                  (probe.meta = "file" /\ NamedZip(probe.name))
            /\ r.kind = "ZipFilePath" => as_path(r) = probe.name
            /\ probe.meta \in {"notfound", "denied"} => r = InvalidPath("does not exist")
            /\ probe.meta \in {"dir", "other"} => r = InvalidPath("is not a file")
            /\ (probe.meta = "file" /\ ~NamedZip(probe.name)) =>
                  r = InvalidPath("is not a .zip file")

\* a path named v.zip with nothing behind it
C21_Witness ==
    /\ probed.call = "ZipFilePath::new"
    /\ probe.meta = "notfound"
    /\ NamedZip(probe.name)
    /\ probed.result = InvalidPath("does not exist")

(***************************************************************************)
(* Two conversions at once.  ImageDataList::new and PdfFile::create_file   *)
(* keep everything they work on in parameters and locals, so two calls     *)
(* under way at the same time (on two threads, or one after the other)     *)
(* each have their own copy; procs[p] is the copy of call p.  A step of    *)
(* the pair is one step of one of the two, as in the single conversion.    *)
(***************************************************************************)
MaxPairLen == 2

PairBlobs == {Wide, Tall, Blob("alpha", 300, 300), JunkBlob}

PairInputs == BoundedSeq(PairBlobs, MaxPairLen)

Call(d, name) ==
    [data |-> d, data_name |-> name, pc |-> "new", i |-> 0, max_width |-> 0,
     max_height |-> 0, vres |-> NoResult, idx |-> 0, doc |-> <<>>, title |-> "",
     pres |-> NoResult]

\* variant: the running maxima are one static pair (that of call 1)
Own_SharedMaxima(ps, p) ==
    [ps[p] EXCEPT !.max_width = ps[1].max_width, !.max_height = ps[1].max_height]

\* variant: the document under construction is one static (that of call 1)
Own_SharedDocument(ps, p) == [ps[p] EXCEPT !.doc = ps[1].doc]

\* what call p works on: its own parameters and locals
Own(ps, p) == ps[p]

InitPair ==
    /\ ConvIdle
    /\ RunIdle
    /\ PathIdle
    /\ \E d1, d2 \in PairInputs, name \in Names :
          procs = <<Call(d1, "album"), Call(d2, name)>>

\* call p takes the step that leads its locals to st
PairStep(p, st) ==
    /\ procs' = [procs EXCEPT ![p] = st]
    /\ UNCHANGED <<convvars, runvars, pathvars>>

PairNewEnter(p) ==
    LET st == Own(procs, p)
    IN  /\ st.pc = "new"
        /\ PairStep(p, IF IsEmptyData(st.data)
                       THEN [st EXCEPT !.vres = EmptyData, !.pc = "rejected",
                                       !.max_width = 0, !.max_height = 0, !.i = 0]
                       ELSE [st EXCEPT !.pc = "new_loop",
                                       !.max_width = 0, !.max_height = 0, !.i = 0])

PairNewDecode(p) ==
    LET st == Own(procs, p)
    IN  /\ st.pc = "new_loop"
        /\ st.i < Len(st.data)
        /\ PairStep(p, LoopBody(st, st.data[st.i + 1]))

PairNewReturn(p) ==
    LET st == Own(procs, p)
    IN  /\ st.pc = "new_loop"
        /\ st.i = Len(st.data)
        /\ PairStep(p, [st EXCEPT !.vres = OkList(st.data, st.data_name,
                                                  st.max_height, st.max_width),
                                  !.pc = "validated"])

PairCreateEnter(p) ==
    LET st == Own(procs, p)
    IN  /\ st.pc = "validated"
        /\ PairStep(p, [st EXCEPT !.doc = <<>>, !.title = st.vres.data_name,
                                  !.idx = 0, !.pc = "create_loop"])

PairCreateImage(p) ==
    LET st == Own(procs, p)
    IN  /\ st.pc = "create_loop"
        /\ st.idx < len(st.vres)
        /\ PairStep(p, CreateBody(st, st.vres))

PairCreateRender(p) ==
    LET st == Own(procs, p)
    IN  /\ st.pc = "create_loop"
        /\ st.idx = len(st.vres)
        /\ \E rendered \in BOOLEAN :
              PairStep(p, IF rendered
                          THEN [st EXCEPT !.pres = OkPdf(st.vres, st.title, st.doc),
                                          !.pc = "created"]
                          ELSE [st EXCEPT !.pres = PdfCreationError("render", 0),
                                          !.pc = "create_failed"])

NextPair ==
    \E p \in 1..2 :
        \/ PairNewEnter(p)
        \/ PairNewDecode(p)
        \/ PairNewReturn(p)
        \/ PairCreateEnter(p)
        \/ PairCreateImage(p)
        \/ PairCreateRender(p)

SpecPair == InitPair /\ [][NextPair]_vars

(***************************************************************************)
(* Claims about two conversions, checked under SpecPair.                   *)
(***************************************************************************)
\* ImageDataList::new of call p has returned
Validated(st) == st.pc \in {"rejected", "validated", "create_loop", "created", "create_failed"}

\* PdfFile::create_file of call p has returned
Assembled(st) == st.pc \in {"created", "create_failed"}

\* the image elements of a document under construction
PlacedIn(d) == Range(ImagesOf(d))

\* d1 and d2 agree as far as both go
AgreeSoFar(d1, d2) ==
    \A k \in 1..Len(d1) : k <= Len(d2) => d1[k] = d2[k]

AloneDoc(list) ==
    CreateLoop([idx |-> 0, doc |-> <<>>, pres |-> NoResult, pc |-> "create_loop"], list).doc

Times(x, y) ==
    LET g1 == GCD(x[1], y[2])
        g2 == GCD(y[1], x[2])
    IN  Rat((x[1] \div g1) * (y[1] \div g2), (x[2] \div g2) * (y[2] \div g1))

AtMost(x, y) == ~RatLess(y, x)

\* physical extent, in mm, of a placed image across and down the page
ExtentAcross(e) == Times(e.scale, Mm(IF Rotated(e) THEN e.image.h ELSE e.image.w))

ExtentDown(e) == Times(e.scale, Mm(IF Rotated(e) THEN e.image.w ELSE e.image.h))

\* the scale the orientation not chosen would allow, capped at 1.0
OtherOrientation(e) ==
    RatMin(IF Rotated(e) THEN ScaleUnrotated(e.image) ELSE ScaleRotated(e.image), One)

(***************************************************************************)
(* C23: every placement fits the usable area: at the chosen scale the      *)
(* image (width and height swapped when it is rotated) is at most 190 mm   *)
(* across and at most 277 mm down, and the orientation not chosen would    *)
(* not allow a larger capped scale.                                        *)
(***************************************************************************)
C23_PlacementFits ==
    \A e \in Placed :
        /\ AtMost(ExtentAcross(e), RatInt(190))
        /\ AtMost(ExtentDown(e), RatInt(277))
        /\ AtMost(OtherOrientation(e), e.scale)

\* a 4000 x 1870 image, rotated and scaled down until it touches 277 mm
C23_Witness ==
    \E e \in Placed :
        /\ e.image.w = 4000 /\ e.image.h = 1870
        /\ Rotated(e)
        /\ RatLess(e.scale, One)
        /\ ExtentDown(e) = RatInt(277)
        /\ RatLess(OtherOrientation(e), e.scale)

(***************************************************************************)
(* C25: on the usable area of 190 mm x 277 mm an image is rotated          *)
(* clockwise by 90 degrees exactly when its pixel width is strictly        *)
(* greater than its pixel height; portrait and square images are never     *)
(* rotated, whatever their size.                                           *)
(***************************************************************************)
C25_RotatesIffWiderThanHigh ==
    \A e \in Placed : Rotated(e) <=> e.image.w > e.image.h

\* one document with a small landscape image, rotated although it would fit as
\* it is, and a portrait image, not rotated
C25_Witness ==
    \E e1, e2 \in Placed :
        /\ e1.image.w > e1.image.h /\ Rotated(e1) /\ e1.scale = One
        /\ e2.image.w < e2.image.h /\ ~Rotated(e2)

(***************************************************************************)
(* C26: in workflow::run the validator is never called with an empty list. *)
(* A directory or zip source in which no image entry is found returns Ok   *)
(* without calling ImageDataList::new and without writing a file, and it   *)
(* is counted as processed; so a run whose only sources hold no images     *)
(* returns Ok with no PDF written.                                         *)
(***************************************************************************)
\* is_image_file accepts no entry of the source
NoImageFound(entry) == \A it \in entry.items : ~is_image_file(it.name, it.is_file)

C26_EmptySourceIsOk ==
    /\ \A k \in 1..Len(outcomes) :
          LET o == outcomes[k]
          IN  /\ o.did.called => o.did.blobs # <<>>
              /\ o.ran => ~(o.did.result.kind = "Err"
                            /\ o.did.result.err.kind = "ImageValidation"
                            /\ o.did.result.err.detail = EmptyData)
              /\ (o.ran /\ listing[k].open_ok /\ NoImageFound(listing[k])) =>
                    /\ o.did.result = OkUnit
                    /\ ~o.did.called
                    /\ o.did.writes = {}
                    /\ k \in SourcesDone
    /\ processed_item_count = Cardinality(SourcesDone)
    /\ (/\ ReachedVerdict
        /\ \E k \in 1..Len(outcomes) : outcomes[k].ran
        /\ \A k \in 1..Len(outcomes) :
              outcomes[k].ran => listing[k].open_ok /\ NoImageFound(listing[k]))
          => run_result = OkUnit /\ files = {}

\* the only source is a directory holding a dot file and a subdirectory; the
\* other entry is no source; run returns Ok and nothing was written
C26_Witness ==
    /\ ReachedVerdict
    /\ Len(outcomes) = 2
    /\ outcomes[1].source.kind = "Directory" /\ outcomes[1].ran
    /\ listing[1].items # {} /\ NoImageFound(listing[1])
    /\ ~outcomes[2].ran
    /\ processed_item_count = 1
    /\ run_result = OkUnit
    /\ files = {}

(***************************************************************************)
(* C27: the output path of a source is output_dir/<display name>.pdf, so   *)
(* two sources of one run with the same display name, a directory 'x' and  *)
(* an archive 'x.zip', write to the same path: after the run that file     *)
(* holds the document of whichever was processed later, and both are       *)
(* counted as processed.  Stated of two sources that both hold image       *)
(* entries and whose processing both returned Ok.                          *)
(***************************************************************************)
\* the display name of a source: a directory's name, an archive's name without ".zip"
DisplayName(entry, variant) ==
    IF variant = "ZipFile" /\ NamedZip(entry.name)
    THEN SubSeq(entry.name, 1, Len(entry.name) - 4)
    ELSE entry.name

\* the source holds image entries and its processing returned Ok
Converted(k) ==
    /\ SourceDone(outcomes[k])
    /\ ImageEntries(listing[k], outcomes[k].source.kind) # {}

C27_AsClaimed ==
    ReachedVerdict =>
        \A j, k \in 1..Len(outcomes) :
            (/\ j < k
             /\ Converted(j) /\ Converted(k)
             /\ DisplayName(listing[j], outcomes[j].source.kind)
                   = DisplayName(listing[k], outcomes[k].source.kind))
            => /\ \A w \in outcomes[j].did.writes \cup outcomes[k].did.writes :
                     w.name = DisplayName(listing[k], outcomes[k].source.kind)
               /\ \E f \in files : f \in outcomes[k].did.writes
               /\ \A f, g \in files : f.name = g.name => f = g
               /\ {j, k} \subseteq SourcesDone
               /\ processed_item_count = Cardinality(SourcesDone)

====
